---- MODULE Spec2Model ----
(***************************************************************************)
(* Quiziq: the per-identity rate limiter (src/lib/rateLimit.ts) and the    *)
(* quiz session state machine of the dashboard page                        *)
(* (src/pages/dashboard.tsx).                                              *)
(***************************************************************************)
EXTENDS Integers, Naturals, Sequences, FiniteSets, TLC

(***************************************************************************)
(* Bounds of the model                                                     *)
(***************************************************************************)
\* days in one calendar month of the modelled clock
DaysPerMonth == 7
\* calendar months the modelled clock runs through
MaxMonth == 2
\* questions in a generated quiz
MaxQuestions == 2
\* addDoc promises in flight beyond which no further generation is started
MaxPending == 2
\* "Mistake Remix" suffixes a quiz title can collect
MaxRemix == 1
\* questions of the quiz whose answer loop is followed on its own
MaxStreakQuestions == 6
\* checkRateLimit calls of one identity that run at the same time
MaxConcurrent == 2
\* questions the upstream generator returns at most
MaxUpstreamQuestions == 4
\* questions of the quiz on which the lifelines are followed
MaxLifelineQuestions == 3

(***************************************************************************)
(* Program constants                                                       *)
(***************************************************************************)
DAILY_LIMIT == 20
MONTHLY_LIMIT == 100

\* the identities whose rateLimits/{userId} document is modelled
Users == {"u1"}

VARIABLES
    now,        \* the UTC wall clock: [month, day]
    store,      \* the rateLimits collection: userId -> document
    rlLast,     \* the last call of each identity and what it returned
    rlTrace     \* history of the calls made since the record was created

rlVars == <<now, store, rlLast, rlTrace>>

\* The dashboard page: React state, the hasSavedRef ref, and the promises in
\* flight
VARIABLES
    user,               \* useAuth().user
    topic,              \* the topic input
    numQuestions,       \* the number-of-questions input, a string of digits
    isGenerating,
    error,
    saveStatus,
    hasSavedRef,
    quiz,
    currentQuestion,
    selectedAnswer,
    showExplanation,
    score,
    quizComplete,
    answers,
    questionStartedAt,
    currentStreak,
    bestStreak,
    responseTimes,
    fiftyFiftyUsed,
    hintUsed,
    eliminatedOptions,
    hintText,
    practiceMode,
    genPc,              \* where the running handleGenerateQuiz call is suspended
    pendingSaves,       \* addDoc promises not settled yet
    sessionWrites,      \* addDoc calls issued for the current quiz object
    correctQs,          \* positions of the current quiz answered correctly so far
    lifelineUses,       \* times each lifeline was applied to the current quiz
    lastDoc             \* the document of the last addDoc call

formVars == <<topic, numQuestions, isGenerating, error>>

playVars == <<quiz, currentQuestion, selectedAnswer, showExplanation, score,
              quizComplete, answers, questionStartedAt, currentStreak, bestStreak,
              responseTimes, fiftyFiftyUsed, hintUsed, eliminatedOptions, hintText,
              practiceMode>>

saveVars == <<saveStatus, hasSavedRef, pendingSaves, sessionWrites, lastDoc>>

uiVars == <<user, formVars, playVars, saveVars, genPc, correctQs, lifelineUses>>

\* The server side of the API routes
VARIABLES
    inflight,           \* the checkRateLimit calls in flight: what each has read
    allowedCalls,       \* checkRateLimit calls that returned allowed so far,
                        \* counted up to DAILY_LIMIT + MaxConcurrent
    apiLast,            \* the last request of /api/quiz and its response
    ipLast              \* the last request of the IP-keyed status route and its response

srvVars == <<inflight, allowedCalls, apiLast, ipLast>>

serverVars == <<rlVars, srvVars>>

vars == <<rlVars, uiVars, srvVars>>

(***************************************************************************)
(* The clock.  new Date().toISOString() is cut to YYYY-MM-DD and YYYY-MM.  *)
(***************************************************************************)
Today(t) == <<t.month, t.day>>

ThisMonth(t) == t.month

LastDate(t) == t.month = MaxMonth /\ t.day = DaysPerMonth

NextDate(t) ==
    IF t.day < DaysPerMonth
    THEN [month |-> t.month, day |-> t.day + 1]
    ELSE [month |-> t.month + 1, day |-> 1]

(***************************************************************************)
(* The rateLimits document of one identity                                 *)
(***************************************************************************)
NoDate == <<0, 0>>

NoDoc ==
    [exists |-> FALSE, dailyCount |-> 0, monthlyCount |-> 0,
     lastDailyReset |-> NoDate, lastMonthlyReset |-> 0]

\* setDoc of the first request
FirstRecord(today, thisMonth) ==
    [exists |-> TRUE, dailyCount |-> 1, monthlyCount |-> 1,
     lastDailyReset |-> today, lastMonthlyReset |-> thisMonth]

\* the lazy roll-over applied to the local copy of the document
RollOver(data, today, thisMonth) ==
    [exists |-> TRUE,
     dailyCount |-> IF data.lastDailyReset # today THEN 0 ELSE data.dailyCount,
     monthlyCount |-> IF data.lastMonthlyReset # thisMonth THEN 0 ELSE data.monthlyCount,
     lastDailyReset |-> IF data.lastDailyReset # today THEN today ELSE data.lastDailyReset,
     lastMonthlyReset |-> IF data.lastMonthlyReset # thisMonth THEN thisMonth
                          ELSE data.lastMonthlyReset]

DailyExceededOffByOne(dailyCount) == dailyCount > DAILY_LIMIT

DailyExceeded(dailyCount) == dailyCount >= DAILY_LIMIT

MonthlyExceededOffByOne(monthlyCount) == monthlyCount > MONTHLY_LIMIT

MonthlyExceeded(monthlyCount) == monthlyCount >= MONTHLY_LIMIT

\* updateDoc of an allowed request
IncrementedNoCount(r) == r

Incremented(r) ==
    [r EXCEPT !.dailyCount = r.dailyCount + 1, !.monthlyCount = r.monthlyCount + 1]

\* the document a rejected request leaves behind, given what it read (data)
\* and its rolled-over local copy (r): the rejecting branches return without
\* a write
RejectedPersistsRollOver(data, r) == r

RejectedCounts(data, r) == Incremented(data)

Rejected(data, r) == data

\* what a call returned: op names the call ("check" or "status"); a rejected
\* check carries a reason and no remaining quota
NoResult ==
    [op |-> "none", allowed |-> FALSE, reason |-> "none", hasRemaining |-> FALSE,
     daily |-> 0, monthly |-> 0]

AllowedResult(daily, monthly) ==
    [op |-> "check", allowed |-> TRUE, reason |-> "none", hasRemaining |-> TRUE,
     daily |-> daily, monthly |-> monthly]

RejectedResult(reason) ==
    [op |-> "check", allowed |-> FALSE, reason |-> reason, hasRemaining |-> FALSE,
     daily |-> 0, monthly |-> 0]

StatusResult(daily, monthly) ==
    [op |-> "status", allowed |-> FALSE, reason |-> "none", hasRemaining |-> TRUE,
     daily |-> daily, monthly |-> monthly]

\* checkRateLimit on the document read (data): what it returns and the
\* document it leaves in the store
CheckOutcome(data, today, thisMonth) ==
    IF ~data.exists
    THEN [result |-> AllowedResult(DAILY_LIMIT - 1, MONTHLY_LIMIT - 1),
          doc |-> FirstRecord(today, thisMonth)]
    ELSE LET r == RollOver(data, today, thisMonth) IN
         IF DailyExceeded(r.dailyCount)
         THEN [result |-> RejectedResult("daily"), doc |-> Rejected(data, r)]
         ELSE IF MonthlyExceeded(r.monthlyCount)
         THEN [result |-> RejectedResult("monthly"), doc |-> Rejected(data, r)]
         ELSE [result |-> AllowedResult(DAILY_LIMIT - (r.dailyCount + 1),
                                        MONTHLY_LIMIT - (r.monthlyCount + 1)),
               doc |-> Incremented(r)]

StatusStoreRolled(data, today, thisMonth) ==
    IF data.exists THEN RollOver(data, today, thisMonth) ELSE data

\* the document getRateLimitStatus leaves in the store: it only reads
StatusStore(data, today, thisMonth) == data

StatusOutcomeNoReset(data, today, thisMonth) ==
    IF ~data.exists
    THEN StatusResult(DAILY_LIMIT, MONTHLY_LIMIT)
    ELSE StatusResult(DAILY_LIMIT - data.dailyCount, MONTHLY_LIMIT - data.monthlyCount)

\* what getRateLimitStatus returns for the document read
StatusOutcome(data, today, thisMonth) ==
    IF ~data.exists
    THEN StatusResult(DAILY_LIMIT, MONTHLY_LIMIT)
    ELSE LET dailyCount == IF data.lastDailyReset # today THEN 0 ELSE data.dailyCount
             monthlyCount == IF data.lastMonthlyReset # thisMonth THEN 0
                             ELSE data.monthlyCount
         IN StatusResult(DAILY_LIMIT - dailyCount, MONTHLY_LIMIT - monthlyCount)

(***************************************************************************)
(* History of the calls of one identity, kept for the properties: the day  *)
(* the record was created, how many checkRateLimit calls read that day     *)
(* (counted up to DAILY_LIMIT + 1), and whether the last call was the      *)
(* first one to read a later day.                                          *)
(***************************************************************************)
NoTrace == [phase |-> "none", calls |-> 0, day |-> NoDate]

TraceAfter(tr, data, today) ==
    IF ~data.exists
    THEN [phase |-> "first", calls |-> 1, day |-> today]
    ELSE IF tr.phase = "first" /\ tr.day = today
    THEN [tr EXCEPT !.calls = IF @ <= DAILY_LIMIT THEN @ + 1 ELSE @]
    ELSE IF tr.phase = "first"
    THEN [tr EXCEPT !.phase = "after"]
    ELSE [phase |-> "later", calls |-> 0, day |-> NoDate]

(***************************************************************************)
(* Operations of the rate limiter, each call run to completion             *)
(***************************************************************************)
\* midnight passes (the clock is a collaborator of the limiter); the response
\* of the last call has been delivered by then
AdvanceDay ==
    /\ ~LastDate(now)
    /\ now' = NextDate(now)
    /\ rlLast' = [u \in Users |-> NoResult]
    /\ UNCHANGED <<store, rlTrace, uiVars, srvVars>>

\* checkRateLimit(userId); the two new Date() reads may fall on either side
\* of midnight (crossed)
checkRateLimit(userId, crossed) ==
    /\ crossed => ~LastDate(now)
    /\ LET today == Today(now)
           later == IF crossed THEN NextDate(now) ELSE now
           thisMonth == ThisMonth(later)
           out == CheckOutcome(store[userId], today, thisMonth)
       IN /\ now' = later
          /\ store' = [store EXCEPT ![userId] = out.doc]
          /\ rlLast' = [rlLast EXCEPT ![userId] = out.result]
          /\ rlTrace' = [rlTrace EXCEPT ![userId] = TraceAfter(@, store[userId], today)]
    /\ UNCHANGED <<uiVars, srvVars>>

\* getRateLimitStatus(userId)
getRateLimitStatus(userId, crossed) ==
    /\ crossed => ~LastDate(now)
    /\ LET today == Today(now)
           later == IF crossed THEN NextDate(now) ELSE now
           thisMonth == ThisMonth(later)
       IN /\ now' = later
          /\ store' = [store EXCEPT ![userId] = StatusStore(@, today, thisMonth)]
          /\ rlLast' = [rlLast EXCEPT ![userId] =
                           StatusOutcome(store[userId], today, thisMonth)]
    /\ UNCHANGED <<rlTrace, uiVars, srvVars>>

CheckStep == \E userId \in Users, crossed \in BOOLEAN : checkRateLimit(userId, crossed)

StatusStep == \E userId \in Users, crossed \in BOOLEAN : getRateLimitStatus(userId, crossed)

(***************************************************************************)
(* checkRateLimit under concurrent calls: a call suspends on getDoc and    *)
(* on setDoc / updateDoc, so other calls of the identity run in between    *)
(***************************************************************************)
Calls == 1..MaxConcurrent

NoCall ==
    [pc |-> "idle", userId |-> "none", data |-> NoDoc, today |-> NoDate, thisMonth |-> 0]

\* the document a call decides on and increments: the one its getDoc returned
DecidedOnTransaction(c, userId) == store[userId]

DecidedOn(c, userId) == inflight[c].data

\* checkRateLimit(userId) up to the await of getDoc: the dates are read and
\* the document is fetched
CallRead(c, userId) ==
    /\ inflight[c].pc = "idle"
    /\ inflight' = [inflight EXCEPT ![c] =
                        [pc |-> "read", userId |-> userId, data |-> store[userId],
                         today |-> Today(now), thisMonth |-> ThisMonth(now)]]
    /\ UNCHANGED <<rlVars, allowedCalls, apiLast, ipLast, uiVars>>

\* the rest of the call: the limits are checked on the document read, and an
\* allowed call writes the counts it computed from that document
CallFinish(c) ==
    /\ inflight[c].pc = "read"
    /\ LET userId == inflight[c].userId
           out == CheckOutcome(DecidedOn(c, userId), inflight[c].today,
                               inflight[c].thisMonth)
       IN /\ store' = IF out.result.allowed
                       THEN [store EXCEPT ![userId] = out.doc]
                       ELSE store
          /\ rlLast' = [rlLast EXCEPT ![userId] = out.result]
          /\ allowedCalls' = IF out.result.allowed /\ allowedCalls < DAILY_LIMIT + MaxConcurrent
                              THEN allowedCalls + 1 ELSE allowedCalls
    /\ inflight' = [inflight EXCEPT ![c] = NoCall]
    /\ UNCHANGED <<now, rlTrace, apiLast, ipLast, uiVars>>

ReadStep == \E c \in Calls, userId \in Users : CallRead(c, userId)

FinishStep == \E c \in Calls : CallFinish(c)

InitStore ==
    /\ now = [month |-> 1, day |-> 1]
    /\ store = [u \in Users |-> NoDoc]
    /\ rlLast = [u \in Users |-> NoResult]
    /\ rlTrace = [u \in Users |-> NoTrace]

(***************************************************************************)
(* The dashboard page (src/pages/dashboard.tsx)                            *)
(***************************************************************************)
\* number | null values hold -1 for null
Null == -1

NoUser == "none"

NoQuiz == [title |-> Null, questions |-> <<>>]

NoLifelineUses == [fiftyFifty |-> 0, hint |-> 0]

\* the question the generator puts at position i: a multiple-choice question
\* at the odd positions, a true/false question at the even ones; id stands
\* for the question text
GeneratedQuestion(i) ==
    IF i % 2 = 1
    THEN [id |-> i, options |-> 4, answerIndex |-> 1]
    ELSE [id |-> i, options |-> 2, answerIndex |-> 0]

\* the quizzes a generation can return: 1 to MaxQuestions questions
GeneratedQuizzes ==
    {[title |-> 0, questions |-> [i \in 1..n |-> GeneratedQuestion(i)]] :
        n \in 1..MaxQuestions}

\* what the topic input is set to
Topics == {"", " ", "bio"}

\* what the number-of-questions input is set to: its onChange strips every
\* character that is not a digit
NumInputs == {"", "0", "2", "3", "10", "20", "21"}

\* Number.parseInt(str, 10) of these strings; Null stands for NaN
ParseInt(str) ==
    CASE str = "" -> Null
      [] str = "0" -> 0
      [] str = "2" -> 2
      [] str = "3" -> 3
      [] str = "10" -> 10
      [] str = "20" -> 20
      [] str = "21" -> 21

\* !n for a number: NaN and 0 are falsy
Falsy(n) == n = Null \/ n = 0

\* n < k and n > k for a number: false for NaN
Less(n, k) == n # Null /\ n < k

Greater(n, k) == n # Null /\ n > k

InvalidCountNoUpper(str) ==
    LET parsed == ParseInt(str) IN Falsy(parsed) \/ Less(parsed, 3)

\* !parsed || parsed < 3 || parsed > 20 || !Number.isInteger(parsed)
InvalidCount(str) ==
    LET parsed == ParseInt(str)
    IN Falsy(parsed) \/ Less(parsed, 3) \/ Greater(parsed, 20) \/ parsed = Null

\* milliseconds between the start of a question and its submission
ElapsedMs == {400, 1600}

\* String.prototype.trim() of the strings used here: " " is whitespace only
Trim(str) == IF str = " " THEN "" ELSE str

\* Math.round of a non-negative quotient a / b (half rounds up)
Round(a, b) == (2 * a + b) \div (2 * b)

Max(a, b) == IF a >= b THEN a ELSE b

\* the three views the page renders
CompleteView == quizComplete /\ quiz # NoQuiz

QuizView == ~quizComplete /\ quiz # NoQuiz

FormView == quiz = NoQuiz

\* a variant of the button that stays enabled while a call is running
GenerateBusyNever == FALSE

\* the isGenerating term of the Generate button's disabled attribute
GenerateBusy == isGenerating

\* the disabled attribute of the Generate button
GenerateDisabled ==
    \/ Trim(topic) = ""
    \/ GenerateBusy
    \/ numQuestions = ""
    \/ Less(ParseInt(numQuestions), 3)
    \/ Greater(ParseInt(numQuestions), 20)

\* Math.round((score / quiz.questions.length) * 100), 0 for an empty quiz
Percentage(sc, total) == IF total > 0 THEN Round(sc * 100, total) ELSE 0

NoHistoryDoc == [score |-> 0, total |-> 0, percent |-> 0, practice |-> FALSE]

\* the document saveHistory hands to addDoc (practice is the practiceMode of
\* the render that saves)
HistoryDoc(sc, total, practice) ==
    [score |-> sc, total |-> total, percent |-> Percentage(sc, total),
     practice |-> practice]

SaveGuardIgnoringPractice(complete, q, usr, saved, practice) ==
    complete /\ q # NoQuiz /\ usr # NoUser /\ ~saved

\* the guard of the save effect: it goes on to saveHistory() when this holds
SaveGuard(complete, q, usr, saved, practice) ==
    ~(~complete \/ q = NoQuiz \/ usr = NoUser \/ saved \/ practice)

\* The save effect, run after the render that follows a handler: depsChanged
\* says whether a dependency of the effect got a new value or a new object,
\* newQuiz whether the handler set a new quiz object; status is the
\* saveStatus the handler leaves.  saveHistory() sets 'saving' and issues
\* addDoc before it first suspends.
SaveEffect(depsChanged, newQuiz, status) ==
    LET before == IF newQuiz THEN 0 ELSE sessionWrites IN
    IF depsChanged /\ SaveGuard(quizComplete', quiz', user', hasSavedRef', practiceMode')
    THEN /\ saveStatus' = "saving"
         /\ pendingSaves' = pendingSaves + 1
         /\ sessionWrites' = before + 1
         /\ lastDoc' = HistoryDoc(score', Len(quiz'.questions), practiceMode')
    ELSE /\ saveStatus' = status
         /\ sessionWrites' = before
         /\ UNCHANGED <<pendingSaves, lastDoc>>

\* a variant of the reset that leaves the eliminated options in place
resetPerQuestionStateKeepEliminated ==
    /\ selectedAnswer' = Null
    /\ showExplanation' = FALSE
    /\ eliminatedOptions' = eliminatedOptions
    /\ hintText' = Null
    /\ questionStartedAt' = 1

\* resetPerQuestionState()
resetPerQuestionState ==
    /\ selectedAnswer' = Null
    /\ showExplanation' = FALSE
    /\ eliminatedOptions' = {}
    /\ hintText' = Null
    /\ questionStartedAt' = 1

\* the topic input's onChange
setTopic(value) ==
    /\ FormView
    /\ topic # value
    /\ topic' = value
    /\ UNCHANGED <<user, numQuestions, isGenerating, error, playVars, hasSavedRef,
                   genPc, serverVars>>
    /\ correctQs' = correctQs
    /\ lifelineUses' = lifelineUses
    /\ SaveEffect(TRUE, FALSE, saveStatus)

\* the number-of-questions input's onChange; error holds 3 for its message
setNumQuestions(value) ==
    /\ FormView
    /\ numQuestions # value
    /\ numQuestions' = value
    /\ LET parsedValue == ParseInt(value)
       IN error' = IF value # "" /\ (Falsy(parsedValue) \/ Less(parsedValue, 3)
                                      \/ Greater(parsedValue, 20))
                   THEN 3 ELSE Null
    /\ UNCHANGED <<user, topic, isGenerating, playVars, hasSavedRef, genPc, serverVars>>
    /\ correctQs' = correctQs
    /\ lifelineUses' = lifelineUses
    /\ SaveEffect(TRUE, FALSE, saveStatus)

\* handleGenerateQuiz up to the fetch of /api/quiz, or up to its return when
\* the count is rejected (error holds 2 for that message).  The Generate
\* button is rendered in the form view and disabled while isGenerating; the
\* rest of its disabled condition repeats the checks made here.  mode stays
\* at its default 'topic'.
handleGenerateQuiz ==
    /\ FormView
    /\ ~GenerateBusy
    /\ pendingSaves < MaxPending
    /\ Trim(topic) # ""
    /\ IF InvalidCount(numQuestions)
       THEN /\ error' = 2
            /\ UNCHANGED <<isGenerating, hasSavedRef, genPc>>
            /\ SaveEffect(FALSE, FALSE, saveStatus)
       ELSE /\ isGenerating' = TRUE
            /\ error' = Null
            /\ hasSavedRef' = FALSE
            /\ genPc' = "quiz"
            /\ SaveEffect(FALSE, FALSE, "idle")
    /\ UNCHANGED <<user, topic, numQuestions, playVars, serverVars>>
    /\ correctQs' = correctQs
    /\ lifelineUses' = lifelineUses

\* the fetch of /api/quiz fails or answers with an error status; error holds
\* 1 for a message
GenerateFailed ==
    /\ genPc = "quiz"
    /\ error' = 1
    /\ isGenerating' = FALSE
    /\ genPc' = "idle"
    /\ UNCHANGED <<user, topic, numQuestions, playVars, hasSavedRef, serverVars>>
    /\ correctQs' = correctQs
    /\ lifelineUses' = lifelineUses
    /\ SaveEffect(FALSE, FALSE, saveStatus)

\* /api/quiz answers 200 (it does so only for a request that carries a
\* userId): the quiz is set and the call suspends on the fetch of
\* /api/rate-limit-status
GenerateQuizReceived(data) ==
    /\ genPc = "quiz"
    /\ user # NoUser
    /\ quiz' = data
    /\ currentQuestion' = 0
    /\ score' = 0
    /\ quizComplete' = FALSE
    /\ genPc' = "status"
    /\ UNCHANGED <<user, formVars, selectedAnswer, showExplanation, answers,
                   questionStartedAt, currentStreak, bestStreak, responseTimes,
                   fiftyFiftyUsed, hintUsed, eliminatedOptions, hintText,
                   practiceMode, hasSavedRef, serverVars>>
    /\ correctQs' = {}
    /\ lifelineUses' = NoLifelineUses
    /\ SaveEffect(TRUE, TRUE, saveStatus)

\* the status fetch settles and the rest of the success path runs
GenerateFinished ==
    /\ genPc = "status"
    /\ answers' = <<>>
    /\ responseTimes' = <<>>
    /\ currentStreak' = 0
    /\ bestStreak' = 0
    /\ fiftyFiftyUsed' = FALSE
    /\ hintUsed' = FALSE
    /\ practiceMode' = FALSE
    /\ resetPerQuestionState
    /\ isGenerating' = FALSE
    /\ genPc' = "idle"
    /\ UNCHANGED <<user, topic, numQuestions, error, quiz, currentQuestion, score, quizComplete,
                   hasSavedRef, serverVars>>
    /\ correctQs' = correctQs
    /\ lifelineUses' = lifelineUses
    /\ SaveEffect(TRUE, FALSE, saveStatus)

\* the status fetch (or reading its body) throws: the catch block runs
GenerateStatusThrew ==
    /\ genPc = "status"
    /\ error' = 1
    /\ isGenerating' = FALSE
    /\ genPc' = "idle"
    /\ UNCHANGED <<user, topic, numQuestions, playVars, hasSavedRef, serverVars>>
    /\ correctQs' = correctQs
    /\ lifelineUses' = lifelineUses
    /\ SaveEffect(FALSE, FALSE, saveStatus)

CurrentQ == quiz.questions[currentQuestion + 1]

HasCurrentQ == quiz # NoQuiz /\ currentQuestion + 1 \in DOMAIN quiz.questions

\* a variant of the early return that lets an eliminated option through
SelectRejectedOnlyRevealed(index) == showExplanation

\* the early return of handleSelectAnswer
SelectRejected(index) == showExplanation \/ index \in eliminatedOptions

\* handleSelectAnswer(index), from the click on a rendered option
handleSelectAnswer(index) ==
    /\ QuizView
    /\ HasCurrentQ
    /\ index < CurrentQ.options
    /\ ~SelectRejected(index)
    /\ selectedAnswer' = index
    /\ UNCHANGED <<user, formVars, quiz, currentQuestion, showExplanation, score,
                   quizComplete, answers, questionStartedAt, currentStreak,
                   bestStreak, responseTimes, fiftyFiftyUsed, hintUsed,
                   eliminatedOptions, hintText, practiceMode, hasSavedRef, genPc, serverVars>>
    /\ correctQs' = correctQs
    /\ lifelineUses' = lifelineUses
    /\ SaveEffect(FALSE, FALSE, saveStatus)

\* the keys 1-4 of the onKeyDown listener
KeySelect(key) ==
    /\ QuizView
    /\ ~showExplanation
    /\ LET index == key - 1
           optionCount == IF HasCurrentQ THEN CurrentQ.options ELSE 0
       IN /\ index < optionCount
          /\ index \notin eliminatedOptions
          /\ selectedAnswer' = index
    /\ UNCHANGED <<user, formVars, quiz, currentQuestion, showExplanation, score,
                   quizComplete, answers, questionStartedAt, currentStreak,
                   bestStreak, responseTimes, fiftyFiftyUsed, hintUsed,
                   eliminatedOptions, hintText, practiceMode, hasSavedRef, genPc, serverVars>>
    /\ correctQs' = correctQs
    /\ lifelineUses' = lifelineUses
    /\ SaveEffect(FALSE, FALSE, saveStatus)

\* Math.max(1, Math.round(ms / 1000)) when the question timer runs, else 0
ElapsedSeconds(startedAt, ms) ==
    IF startedAt # 0 THEN Max(1, Round(ms, 1000)) ELSE 0

NextStreakNoReset(prev, isCorrect) == IF isCorrect THEN prev + 1 ELSE prev

\* the updater of setCurrentStreak
NextStreak(prev, isCorrect) == IF isCorrect THEN prev + 1 ELSE 0

\* the updater of setBestStreak
NextBest(best, nextStreak) == Max(best, nextStreak)

\* handleSubmitAnswer(), from the Submit button or the Enter key
handleSubmitAnswer(ms) ==
    /\ QuizView
    /\ ~showExplanation
    /\ HasCurrentQ
    /\ selectedAnswer # Null
    /\ LET elapsedSeconds == ElapsedSeconds(questionStartedAt, ms)
           correct == CurrentQ.answerIndex
           isCorrect == selectedAnswer = correct
           nextStreak == NextStreak(currentStreak, isCorrect)
       IN /\ score' = IF isCorrect THEN score + 1 ELSE score
          /\ currentStreak' = nextStreak
          /\ bestStreak' = NextBest(bestStreak, nextStreak)
          /\ answers' = Append(answers, [selected |-> selectedAnswer,
                                         correct |-> correct,
                                         timeSpent |-> elapsedSeconds])
          /\ responseTimes' = Append(responseTimes, elapsedSeconds)
          /\ showExplanation' = TRUE
    /\ UNCHANGED <<user, formVars, quiz, currentQuestion, selectedAnswer,
                   quizComplete, questionStartedAt, fiftyFiftyUsed, hintUsed,
                   eliminatedOptions, hintText, practiceMode, hasSavedRef, genPc, serverVars>>
    /\ correctQs' = IF selectedAnswer = CurrentQ.answerIndex
                    THEN correctQs \cup {currentQuestion + 1} ELSE correctQs
    /\ lifelineUses' = lifelineUses
    /\ SaveEffect(TRUE, FALSE, saveStatus)

\* handleNextQuestion(), from the Next button or the Enter key; both exist
\* only while the explanation is shown
handleNextQuestion ==
    /\ QuizView
    /\ showExplanation
    /\ IF currentQuestion < Len(quiz.questions) - 1
       THEN /\ currentQuestion' = currentQuestion + 1
            /\ resetPerQuestionState
            /\ UNCHANGED quizComplete
       ELSE /\ quizComplete' = TRUE
            /\ UNCHANGED <<currentQuestion, selectedAnswer, showExplanation,
                           eliminatedOptions, hintText, questionStartedAt>>
    /\ UNCHANGED <<user, formVars, quiz, score, answers, currentStreak, bestStreak,
                   responseTimes, fiftyFiftyUsed, hintUsed, practiceMode,
                   hasSavedRef, genPc, serverVars>>
    /\ correctQs' = correctQs
    /\ lifelineUses' = lifelineUses
    /\ SaveEffect(quizComplete' # quizComplete, FALSE, saveStatus)

\* a variant of the input reset that keeps the typed number of questions
resetInputsKeepCount ==
    /\ topic' = ""
    /\ numQuestions' = numQuestions

\* the generation inputs handleRestartQuiz puts back to their defaults
resetInputs ==
    /\ topic' = ""
    /\ numQuestions' = "10"

\* handleRestartQuiz(), from the button of the results view
handleRestartQuiz ==
    /\ CompleteView
    /\ quiz' = NoQuiz
    /\ currentQuestion' = 0
    /\ selectedAnswer' = Null
    /\ showExplanation' = FALSE
    /\ score' = 0
    /\ quizComplete' = FALSE
    /\ answers' = <<>>
    /\ resetInputs
    /\ currentStreak' = 0
    /\ bestStreak' = 0
    /\ responseTimes' = <<>>
    /\ fiftyFiftyUsed' = FALSE
    /\ hintUsed' = FALSE
    /\ eliminatedOptions' = {}
    /\ hintText' = Null
    /\ practiceMode' = FALSE
    /\ questionStartedAt' = 0
    /\ UNCHANGED <<user, isGenerating, error, hasSavedRef, genPc, serverVars>>
    /\ correctQs' = {}
    /\ lifelineUses' = NoLifelineUses
    /\ SaveEffect(TRUE, TRUE, saveStatus)

\* the answers the results view counts as missed (missedCount)
MissedCount == Cardinality({i \in DOMAIN answers : answers[i].selected # answers[i].correct})

\* quiz.questions.filter(...) of handleRetryMissedQuestions: the questions
\* without an answer record or with a wrong one, in order
RECURSIVE MissedQuestions(_, _, _)
MissedQuestions(questions, recs, i) ==
    IF i > Len(questions) THEN <<>>
    ELSE LET missed == i \notin DOMAIN recs \/ recs[i].selected # recs[i].correct
             rest == MissedQuestions(questions, recs, i + 1)
         IN IF missed THEN <<questions[i]>> \o rest ELSE rest

\* handleRetryMissedQuestions(), from the button shown while missedCount > 0
handleRetryMissedQuestions ==
    /\ CompleteView
    /\ MissedCount > 0
    /\ quiz.title < MaxRemix
    /\ LET missedQuestions == MissedQuestions(quiz.questions, answers, 1)
       IN /\ Len(missedQuestions) # 0
          /\ quiz' = [title |-> quiz.title + 1, questions |-> missedQuestions]
    /\ practiceMode' = TRUE
    /\ currentQuestion' = 0
    /\ selectedAnswer' = Null
    /\ showExplanation' = FALSE
    /\ score' = 0
    /\ quizComplete' = FALSE
    /\ answers' = <<>>
    /\ currentStreak' = 0
    /\ bestStreak' = 0
    /\ responseTimes' = <<>>
    /\ fiftyFiftyUsed' = FALSE
    /\ hintUsed' = FALSE
    /\ eliminatedOptions' = {}
    /\ hintText' = Null
    /\ questionStartedAt' = 1
    /\ UNCHANGED <<user, formVars, hasSavedRef, genPc, serverVars>>
    /\ correctQs' = {}
    /\ lifelineUses' = NoLifelineUses
    /\ SaveEffect(TRUE, TRUE, saveStatus)

\* a variant of the filter that keeps the correct option among the candidates
incorrectIndicesKeepAnswer(q) == 0..(q.options - 1)

\* the option indices of a question other than its answerIndex
incorrectIndices(q) == (0..(q.options - 1)) \ {q.answerIndex}

\* handleUseFiftyFifty(); toEliminate is the first two of the shuffled
\* incorrect indices
handleUseFiftyFifty(toEliminate) ==
    /\ QuizView
    /\ ~(showExplanation \/ fiftyFiftyUsed)
    /\ HasCurrentQ
    /\ ~(CurrentQ.options < 4)
    /\ toEliminate \subseteq incorrectIndices(CurrentQ)
    /\ Cardinality(toEliminate) = 2
    /\ eliminatedOptions' = toEliminate
    /\ fiftyFiftyUsed' = TRUE
    /\ selectedAnswer' = IF selectedAnswer # Null /\ selectedAnswer \in toEliminate
                         THEN Null ELSE selectedAnswer
    /\ UNCHANGED <<user, formVars, quiz, currentQuestion, showExplanation, score,
                   quizComplete, answers, questionStartedAt, currentStreak,
                   bestStreak, responseTimes, hintUsed, hintText, practiceMode,
                   hasSavedRef, genPc, serverVars>>
    /\ correctQs' = correctQs
    /\ lifelineUses' = [lifelineUses EXCEPT !.fiftyFifty = @ + 1]
    /\ SaveEffect(FALSE, FALSE, saveStatus)

\* handleUseHint(); the hint text is named by the question it is cut from
handleUseHint ==
    /\ QuizView
    /\ ~(showExplanation \/ hintUsed)
    /\ HasCurrentQ
    /\ hintText' = CurrentQ.id
    /\ hintUsed' = TRUE
    /\ UNCHANGED <<user, formVars, quiz, currentQuestion, selectedAnswer,
                   showExplanation, score, quizComplete, answers, questionStartedAt,
                   currentStreak, bestStreak, responseTimes, fiftyFiftyUsed,
                   eliminatedOptions, practiceMode, hasSavedRef, genPc, serverVars>>
    /\ correctQs' = correctQs
    /\ lifelineUses' = [lifelineUses EXCEPT !.hint = @ + 1]
    /\ SaveEffect(FALSE, FALSE, saveStatus)

\* the addDoc promise of a saveHistory() call resolves
SaveResolved ==
    /\ pendingSaves > 0
    /\ pendingSaves' = pendingSaves - 1
    /\ hasSavedRef' = TRUE
    /\ saveStatus' = "saved"
    /\ UNCHANGED <<user, formVars, playVars, sessionWrites, lastDoc, genPc, correctQs, lifelineUses,
                   serverVars>>

\* the addDoc promise rejects
SaveRejected ==
    /\ pendingSaves > 0
    /\ pendingSaves' = pendingSaves - 1
    /\ saveStatus' = "error"
    /\ UNCHANGED <<user, formVars, playVars, hasSavedRef, sessionWrites, lastDoc,
                   genPc, correctQs, lifelineUses, serverVars>>

InitPage ==
    /\ user \in Users
    /\ topic = ""
    /\ numQuestions = "10"
    /\ isGenerating = FALSE
    /\ error = Null
    /\ saveStatus = "idle"
    /\ hasSavedRef = FALSE
    /\ quiz = NoQuiz
    /\ currentQuestion = 0
    /\ selectedAnswer = Null
    /\ showExplanation = FALSE
    /\ score = 0
    /\ quizComplete = FALSE
    /\ answers = <<>>
    /\ questionStartedAt = 0
    /\ currentStreak = 0
    /\ bestStreak = 0
    /\ responseTimes = <<>>
    /\ fiftyFiftyUsed = FALSE
    /\ hintUsed = FALSE
    /\ eliminatedOptions = {}
    /\ hintText = Null
    /\ practiceMode = FALSE
    /\ genPc = "idle"
    /\ pendingSaves = 0
    /\ sessionWrites = 0
    /\ correctQs = {}
    /\ lifelineUses = NoLifelineUses
    /\ lastDoc = NoHistoryDoc

(***************************************************************************)
(* The quiz generation endpoint (src/pages/api/quiz.ts)                    *)
(***************************************************************************)
\* A request body: userId is NoUser when absent; mode, topic and studyGuide
\* are "" when absent (absent, empty and non-string values all take the same
\* branches); count is an integer or something Number() turns into NaN.
IntCount(n) == [kind |-> "int", value |-> n]

NaNCount == [kind |-> "nan", value |-> 0]

BaseRequest ==
    [method |-> "POST", userId |-> "u1", mode |-> "topic", topic |-> "bio",
     studyGuide |-> "", count |-> IntCount(5)]

Contents == {"", " ", "bio"}

Counts == {NaNCount} \cup {IntCount(n) : n \in {-2, 0, 2, 3, 20, 21}}

\* the requests sent to the endpoint
Requests ==
    {BaseRequest}
    \cup {[BaseRequest EXCEPT !.mode = m, !.topic = c, !.studyGuide = c] :
        m \in {"topic", "studyGuide", "essay", ""}, c \in Contents}
    \cup {[BaseRequest EXCEPT !.userId = NoUser, !.mode = m] : m \in {"topic", "essay"}}
    \cup {[BaseRequest EXCEPT !.count = n] : n \in Counts}
    \cup {[BaseRequest EXCEPT !.method = "GET"]}

\* one question the generator returns with an answerIndex outside its options
BadQuestion == [id |-> 9, options |-> 4, answerIndex |-> 4]

\* one character of a string: it has no options and no answerIndex
Character == [id |-> 0, options |-> 0, answerIndex |-> Null]

\* a questions member that is a string where an array is expected; .length
\* and .slice work on it as on an array
QuestionsString == <<Character, Character, Character>>

\* the questions members a parsed payload can carry
UpstreamQuestionLists ==
    {<<>>, <<BadQuestion>>, <<GeneratedQuestion(1), BadQuestion>>, QuestionsString}
    \cup {[i \in 1..n |-> GeneratedQuestion(i)] : n \in 1..MaxUpstreamQuestions}

\* The text of the generator's message: "{" and "}" are braces, "q" stands
\* for the members of a quiz payload, "n" for a JSON literal that is not an
\* object (null, a number), "p" for any other character.
JsonQuiz == <<"{", "q", "}">>

JsonLiteral == <<"n">>

UpstreamTexts ==
    {<<>>, <<"{", "}">>, <<"}", "q", "{">>, <<"p", "{", "q", "}", "p">>,
     <<"{", "q", "}", "p", "}">>, JsonLiteral}

\* what the fetch of the generator does: it throws, answers with a non-2xx
\* status, or answers 200 with a message text
NoReply == [kind |-> "none", status |-> 0, text |-> <<>>, questions |-> <<>>]

UpstreamStatuses == {401, 429, 503}

UpstreamReplies ==
    {[NoReply EXCEPT !.kind = "throw"]}
    \cup {[NoReply EXCEPT !.kind = "status", !.status = st] : st \in UpstreamStatuses}
    \cup {[NoReply EXCEPT !.kind = "text", !.status = 200, !.text = JsonQuiz,
                          !.questions = qs] : qs \in UpstreamQuestionLists}
    \cup {[NoReply EXCEPT !.kind = "text", !.status = 200, !.text = t,
                          !.questions = <<GeneratedQuestion(1)>>] : t \in UpstreamTexts}

\* what the handler finds around it: whether Firestore throws inside
\* checkRateLimit, whether GROQ_API_KEY is set, and the generator's reply
Envs ==
    {[limiterThrows |-> FALSE, keySet |-> TRUE, reply |-> r] : r \in UpstreamReplies}
    \cup {[limiterThrows |-> TRUE, keySet |-> TRUE, reply |-> [NoReply EXCEPT !.kind = "throw"]],
          [limiterThrows |-> FALSE, keySet |-> FALSE, reply |-> [NoReply EXCEPT !.kind = "throw"]]}

Min(a, b) == IF a <= b THEN a ELSE b

\* Number(count) || 10: NaN and 0 are falsy
CountOrDefault(count) ==
    IF count.kind = "int" /\ count.value # 0 THEN count.value ELSE 10

\* safeCount
SafeCount(count) == Min(Max(CountOrDefault(count), 3), 20)

\* !mode || (mode !== 'topic' && mode !== 'studyGuide')
InvalidMode(mode) == mode = "" \/ (mode # "topic" /\ mode # "studyGuide")

ContentOf(req) == IF req.mode = "topic" THEN req.topic ELSE req.studyGuide

\* !content || typeof content !== 'string'
MissingContent(content) == content = ""

RateLimitedNever(result) == FALSE

\* !rateLimitResult.allowed
RateLimited(result) == ~result.allowed

\* text.indexOf(ch) and text.lastIndexOf(ch), 0 when ch does not occur
IndexOf(text, ch) ==
    IF \E i \in DOMAIN text : text[i] = ch
    THEN CHOOSE i \in DOMAIN text :
            text[i] = ch /\ \A j \in DOMAIN text : text[j] = ch => i <= j
    ELSE 0

LastIndexOf(text, ch) ==
    IF \E i \in DOMAIN text : text[i] = ch
    THEN CHOOSE i \in DOMAIN text :
            text[i] = ch /\ \A j \in DOMAIN text : text[j] = ch => j <= i
    ELSE 0

\* extractJson(text) || text
JsonText(text) ==
    LET first == IndexOf(text, "{")
        last == LastIndexOf(text, "}")
    IN IF first = 0 \/ last = 0 \/ last <= first THEN text
       ELSE SubSeq(text, first, last)

\* JSON.parse of a message text: the questions of the payload, or a failure.
\* "{}" parses to an object without questions and a literal to a value
\* without members; nothing else that the texts above can be cut to parses.
ParseFailed(jsonText) == jsonText \notin {JsonQuiz, <<"{", "}">>, JsonLiteral}

ParsedQuestions(jsonText, questions) ==
    IF jsonText = JsonQuiz THEN questions ELSE <<>>

TruncateKeepAll(questions, safeCount) == questions

\* parsed.questions.slice(0, safeCount) when there are more than safeCount
Truncate(questions, safeCount) ==
    IF Len(questions) > safeCount THEN SubSeq(questions, 1, safeCount) ELSE questions

\* no request of /api/quiz has been served yet
NoResponse ==
    [status |-> 0, error |-> "none", rateLimitExceeded |-> FALSE,
     limiter |-> NoResult, limiterCalled |-> FALSE, upstreamCalled |-> FALSE,
     safeCount |-> 0, questions |-> <<>>,
     req |-> BaseRequest, reply |-> NoReply]

Response(req, status, err) ==
    [NoResponse EXCEPT !.req = req, !.status = status, !.error = err]

\* the part of the handler after the rate limit check
Generate(req, env, base) ==
    IF InvalidMode(req.mode) THEN [base EXCEPT !.status = 400, !.error = "mode"]
    ELSE IF MissingContent(ContentOf(req))
    THEN [base EXCEPT !.status = 400, !.error = "content"]
    ELSE LET safeCount == SafeCount(req.count)
             counted == [base EXCEPT !.safeCount = safeCount]
             called == [counted EXCEPT !.upstreamCalled = TRUE, !.reply = env.reply]
             jsonText == JsonText(env.reply.text)
             questions == ParsedQuestions(jsonText, env.reply.questions)
         IN IF ~env.keySet THEN [counted EXCEPT !.status = 500, !.error = "nokey"]
            ELSE IF env.reply.kind = "throw"
            THEN [called EXCEPT !.status = 500, !.error = "server"]
            ELSE IF env.reply.kind = "status"
            THEN [called EXCEPT !.status = env.reply.status, !.error = "upstream"]
            ELSE IF ParseFailed(jsonText)
            THEN [called EXCEPT !.status = 500, !.error = "parse"]
            ELSE IF Len(questions) = 0
            THEN [called EXCEPT !.status = 500, !.error = "format"]
            ELSE [called EXCEPT !.status = 200,
                                !.questions = Truncate(questions, safeCount)]

LimiterFailedIgnored(env) == FALSE

\* the try around checkRateLimit ends in its catch: Firestore threw at the
\* read or at the write
LimiterFailed(env) == env.limiterThrows

\* handler(req, res): the response, for the document data that
\* checkRateLimit reads
Respond(req, env, data, today, thisMonth) ==
    IF req.method # "POST" THEN Response(req, 405, "method")
    ELSE IF req.userId = NoUser THEN Response(req, 401, "auth")
    ELSE IF LimiterFailed(env)
    THEN [Response(req, 500, "limiter") EXCEPT !.limiterCalled = TRUE]
    ELSE LET result == CheckOutcome(data, today, thisMonth).result
             base == [Response(req, 0, "none") EXCEPT !.limiterCalled = TRUE,
                                                     !.limiter = result]
         IN IF RateLimited(result)
            THEN [base EXCEPT !.status = 429, !.error = result.reason,
                              !.rateLimitExceeded = TRUE]
            ELSE Generate(req, env, base)

\* one request served by the endpoint: the response, and the writes of the
\* checkRateLimit call it made
handler(req, env) ==
    /\ LET userId == IF req.userId = NoUser THEN CHOOSE u \in Users : TRUE ELSE req.userId
           data == store[userId]
       IN /\ apiLast' = Respond(req, env, data, Today(now), ThisMonth(now))
          /\ IF apiLast'.limiter.op = "check"
             THEN /\ store' = [store EXCEPT ![userId] =
                                  CheckOutcome(data, Today(now), ThisMonth(now)).doc]
                  /\ rlLast' = [rlLast EXCEPT ![userId] = apiLast'.limiter]
                  /\ rlTrace' = [rlTrace EXCEPT ![userId] =
                                    TraceAfter(@, data, Today(now))]
             ELSE UNCHANGED <<store, rlLast, rlTrace>>
    /\ UNCHANGED <<now, inflight, allowedCalls, ipLast, uiVars>>

HandlerStep == \E req \in Requests, env \in Envs : handler(req, env)

(***************************************************************************)
(* The caller's address (src/lib/clientIp.ts) and the status route keyed   *)
(* by it.  A text is a sequence of characters: " " a blank, "," ":" "."    *)
(* "[" "]" themselves, "1" "2" "3" digits, "F" the seven characters        *)
(* "::ffff:", "U" the word "unknown" in any letter case.                   *)
(***************************************************************************)
\* String.prototype.trim()
RECURSIVE TrimStart(_)
TrimStart(text) ==
    IF text # <<>> /\ Head(text) = " " THEN TrimStart(Tail(text)) ELSE text

RECURSIVE TrimEnd(_)
TrimEnd(text) ==
    IF text # <<>> /\ text[Len(text)] = " "
    THEN TrimEnd(SubSeq(text, 1, Len(text) - 1)) ELSE text

TrimText(text) == TrimEnd(TrimStart(text))

\* (trimmed.match(/:/g) || []).length
ColonCount(text) ==
    Cardinality({i \in DOMAIN text : text[i] = ":"})
        + 3 * Cardinality({i \in DOMAIN text : text[i] = "F"})

\* text.split(ch)[0]: the text before the first ch, the whole text without one
BeforeFirst(text, ch) ==
    IF IndexOf(text, ch) = 0 THEN text ELSE SubSeq(text, 1, IndexOf(text, ch) - 1)

\* normalizeIp(ipAddress); closingBracketIndex is the 0-based index
normalizeIp(ipAddress) ==
    LET trimmed == TrimText(ipAddress)
        closingBracketIndex == IndexOf(trimmed, "]") - 1
    IN IF trimmed = <<>> \/ trimmed = <<"U">> THEN <<>>
       ELSE IF Head(trimmed) = "F" THEN Tail(trimmed)
       ELSE IF Head(trimmed) = "[" /\ closingBracketIndex > 1
       THEN SubSeq(trimmed, 2, closingBracketIndex)
       ELSE IF ColonCount(trimmed) = 1 /\ IndexOf(trimmed, ".") # 0
       THEN BeforeFirst(trimmed, ":")
       ELSE trimmed

\* a header of the request: absent, one string, or an array of strings
NoHeader == [kind |-> "none", values |-> <<>>]

StringHeader(text) == [kind |-> "string", values |-> <<text>>]

ArrayHeader(texts) == [kind |-> "array", values |-> texts]

\* Array.isArray(h) ? h[0] : h, with typeof ... === 'string'
IsString(header) == header.values # <<>>

FirstValue(header) == header.values[1]

\* getClientIp returns null
NoIp == <<"null">>

\* req.socket?.remoteAddress is undefined
NoAddress == [defined |-> FALSE, text |-> <<>>]

Address(text) == [defined |-> TRUE, text |-> text]

\* a variant of the order that prefers X-Real-IP to X-Forwarded-For
FirstResolvedRealFirst(fromForwarded, fromReal, fromSocket) ==
    IF fromReal # <<>> THEN fromReal
    ELSE IF fromForwarded # <<>> THEN fromForwarded
    ELSE IF fromSocket # <<>> THEN fromSocket
    ELSE NoIp

\* the order of the three returns of getClientIp
FirstResolved(fromForwarded, fromReal, fromSocket) ==
    IF fromForwarded # <<>> THEN fromForwarded
    ELSE IF fromReal # <<>> THEN fromReal
    ELSE IF fromSocket # <<>> THEN fromSocket
    ELSE NoIp

\* getClientIp(req)
getClientIp(req) ==
    LET forwarded == req.forwardedFor
        real == req.realIp
        fromForwarded ==
            IF IsString(forwarded) /\ TrimText(FirstValue(forwarded)) # <<>>
            THEN LET firstForwardedIp == BeforeFirst(FirstValue(forwarded), ",")
                 IN IF firstForwardedIp # <<>> THEN normalizeIp(firstForwardedIp) ELSE <<>>
            ELSE <<>>
        fromReal ==
            IF IsString(real) /\ TrimText(FirstValue(real)) # <<>>
            THEN normalizeIp(FirstValue(real))
            ELSE <<>>
        fromSocket ==
            IF req.remoteAddress.defined /\ req.remoteAddress.text # <<>>
            THEN normalizeIp(req.remoteAddress.text)
            ELSE <<>>
    IN FirstResolved(fromForwarded, fromReal, fromSocket)

\* the address texts a source can carry, written with the digit d
IpTexts(d) ==
    {<<>>, <<" ">>, <<"U">>, <<" ", "U", " ">>,
     <<d, ".", d>>, <<" ", d, ".", d, " ">>, <<d, ".", d, ":", d>>,
     <<"F", d, ".", d>>, <<"F">>,
     <<"[", d, ":", d, "]", ":", d>>, <<"[", "]">>,
     <<d, ":", d, ":", d>>, <<":", d, ".", d>>}

\* the X-Forwarded-For lists: one entry, or two entries with a comma
ForwardedTexts ==
    IpTexts("1")
    \cup {a \o <<",">> \o b : a \in {<<>>, <<" ">>, <<"U">>, <<"1", ".", "1">>,
                                     <<"1", ".", "1", ":", "1">>},
                              b \in {<<>>, <<" ", "1", ".", "2">>}}

ForwardedHeaders ==
    {NoHeader, ArrayHeader(<<>>), ArrayHeader(<<<<"U">>, <<"1", ".", "1">>>>),
     ArrayHeader(<<<<"1", ".", "1">>, <<"1", ".", "2">>>>)}
    \cup {StringHeader(t) : t \in ForwardedTexts}

RealIpHeaders ==
    {NoHeader, ArrayHeader(<<<<"2", ".", "2">>>>)}
    \cup {StringHeader(t) : t \in {<<>>, <<" ">>, <<"U">>, <<"2", ".", "2">>,
                                   <<"2", ".", "2", ":", "2">>, <<":", "2", ".", "2">>}}

RemoteAddresses ==
    {NoAddress}
    \cup {Address(t) : t \in {<<>>, <<" ">>, <<"F", "3", ".", "3">>, <<"3", ":", "3", ":", "3">>}}

\* the requests of the status route; the last one meets a failing Firestore
IpRequests ==
    {[method |-> "GET", forwardedFor |-> f, realIp |-> r, remoteAddress |-> a,
      limiterThrows |-> FALSE] :
        f \in ForwardedHeaders, r \in RealIpHeaders, a \in RemoteAddresses}
    \cup {[method |-> m, forwardedFor |-> StringHeader(<<"1", ".", "1">>),
           realIp |-> NoHeader, remoteAddress |-> NoAddress, limiterThrows |-> t] :
            m \in {"GET", "POST"}, t \in BOOLEAN}

NoIpRequest ==
    [method |-> "GET", forwardedFor |-> NoHeader, realIp |-> NoHeader,
     remoteAddress |-> NoAddress, limiterThrows |-> FALSE]

\* no request of the status route has been served yet
NoIpResponse ==
    [status |-> 0, clientIp |-> NoIp, limiter |-> NoResult, req |-> NoIpRequest]

\* handler(req, res) of the IP-keyed rate-limit-status route; no record is
\* ever stored under an address, so getRateLimitStatus finds no document
ipStatusHandler(req) ==
    /\ LET clientIp == getClientIp(req)
           base == [NoIpResponse EXCEPT !.req = req]
       IN ipLast' =
            IF req.method # "GET" THEN [base EXCEPT !.status = 405]
            ELSE IF clientIp = NoIp THEN [base EXCEPT !.status = 400]
            ELSE IF req.limiterThrows
            THEN [base EXCEPT !.status = 500, !.clientIp = clientIp]
            ELSE [base EXCEPT !.status = 200, !.clientIp = clientIp,
                              !.limiter = StatusOutcome(NoDoc, Today(now), ThisMonth(now))]
    /\ UNCHANGED <<rlVars, inflight, allowedCalls, apiLast, uiVars>>

IpStatusStep == \E req \in IpRequests : ipStatusHandler(req)

InitServer ==
    /\ inflight = [c \in Calls |-> NoCall]
    /\ allowedCalls = 0
    /\ apiLast = NoResponse
    /\ ipLast = NoIpResponse

Init == InitStore /\ InitPage /\ InitServer

NextRL ==
    \/ AdvanceDay
    \/ CheckStep
    \/ StatusStep

\* the rate limiter under sequential calls
SpecRL == Init /\ [][NextRL]_vars

NextConcurrent ==
    \/ ReadStep
    \/ FinishStep

\* the rate limiter under concurrent calls of one identity, within one day
SpecConcurrent == Init /\ [][NextConcurrent]_vars

\* the records one request below the monthly limit on the last day of a
\* month, one or two below the daily limit: 80 requests on the first four
\* days, at most one on the days between, the rest on the last
NearLimitDate == [month |-> 1, day |-> DaysPerMonth]

NearLimitRecords ==
    {[exists |-> TRUE, dailyCount |-> dailyCount, monthlyCount |-> MONTHLY_LIMIT - 1,
      lastDailyReset |-> Today(NearLimitDate),
      lastMonthlyReset |-> ThisMonth(NearLimitDate)] :
        dailyCount \in {DAILY_LIMIT - 2, DAILY_LIMIT - 1}}

InitNearLimit ==
    /\ now = NearLimitDate
    /\ store \in [Users -> NearLimitRecords]
    /\ rlLast = [u \in Users |-> NoResult]
    /\ rlTrace = [u \in Users |-> NoTrace]
    /\ InitPage
    /\ InitServer

\* the days followed after NearLimitDate
MaxNearDays == 2

\* the allowed calls followed from NearLimitRecord
MaxNearCalls == 6

NearClock == now = NearLimitDate \/ now.day < MaxNearDays

NearAdvanceDay ==
    /\ NearClock
    /\ AdvanceDay

NearStatusStep ==
    \E userId \in Users, crossed \in BOOLEAN :
        /\ crossed => NearClock
        /\ getRateLimitStatus(userId, crossed)

NearReadStep ==
    /\ allowedCalls < MaxNearCalls
    /\ ReadStep

NextNearLimit ==
    \/ NearAdvanceDay
    \/ NearReadStep
    \/ FinishStep
    \/ NearStatusStep

\* concurrent calls of one identity around both limits and across the
\* midnight that ends the month
SpecNearLimit == InitNearLimit /\ [][NextNearLimit]_vars

NextApi == HandlerStep

\* the quiz endpoint serving one request after the other, within one day
SpecApi == Init /\ [][NextApi]_vars

GenerateReceivedStep == \E data \in GeneratedQuizzes : GenerateQuizReceived(data)

SelectStep ==
    \/ \E index \in 0..3 : handleSelectAnswer(index)
    \/ \E key \in 1..4 : KeySelect(key)

SubmitStep == \E ms \in ElapsedMs : handleSubmitAnswer(ms)

FiftyFiftyStep == \E toEliminate \in SUBSET (0..3) : handleUseFiftyFifty(toEliminate)

TopicStep == \E value \in Topics : setTopic(value)

NextSession ==
    \/ TopicStep
    \/ handleGenerateQuiz
    \/ GenerateFailed
    \/ GenerateReceivedStep
    \/ GenerateFinished
    \/ GenerateStatusThrew
    \/ SelectStep
    \/ SubmitStep
    \/ handleNextQuestion
    \/ handleRestartQuiz
    \/ handleRetryMissedQuestions
    \/ SaveResolved
    \/ SaveRejected

\* one visit of the dashboard page
SpecSession == Init /\ [][NextSession]_vars

\* the quiz the answer loop below is played on
StreakQuiz ==
    [title |-> 0, questions |-> [i \in 1..MaxStreakQuestions |-> GeneratedQuestion(i)]]

\* the page right after /api/quiz answered a first generation with
\* StreakQuiz: handleGenerateQuiz is suspended on the status fetch
AnsweringFrom(received) ==
    /\ InitStore
    /\ InitServer
    /\ user \in Users
    /\ topic = "bio"
    /\ numQuestions = "10"
    /\ isGenerating = TRUE
    /\ error = Null
    /\ saveStatus = "idle"
    /\ hasSavedRef = FALSE
    /\ quiz = received
    /\ currentQuestion = 0
    /\ selectedAnswer = Null
    /\ showExplanation = FALSE
    /\ score = 0
    /\ quizComplete = FALSE
    /\ answers = <<>>
    /\ questionStartedAt = 0
    /\ currentStreak = 0
    /\ bestStreak = 0
    /\ responseTimes = <<>>
    /\ fiftyFiftyUsed = FALSE
    /\ hintUsed = FALSE
    /\ eliminatedOptions = {}
    /\ hintText = Null
    /\ practiceMode = FALSE
    /\ genPc = "status"
    /\ pendingSaves = 0
    /\ sessionWrites = 0
    /\ correctQs = {}
    /\ lifelineUses = NoLifelineUses
    /\ lastDoc = NoHistoryDoc

InitAnswering == AnsweringFrom(StreakQuiz)

NextAnswering ==
    \/ GenerateFinished
    \/ GenerateStatusThrew
    \/ SelectStep
    \/ SubmitStep
    \/ handleNextQuestion

\* the answer loop of one generated quiz, from the arrival of the quiz on
SpecAnswering == InitAnswering /\ [][NextAnswering]_vars

NumQuestionsStep == \E value \in NumInputs : setNumQuestions(value)

NextForm ==
    \/ TopicStep
    \/ NumQuestionsStep
    \/ handleGenerateQuiz
    \/ GenerateFailed
    \/ GenerateReceivedStep
    \/ GenerateFinished
    \/ GenerateStatusThrew

\* the generation form: its inputs and handleGenerateQuiz, called with
\* whatever count the input holds
SpecForm == Init /\ [][NextForm]_vars

\* the quiz the lifelines are followed on
LifelineQuiz ==
    [title |-> 0, questions |-> [i \in 1..MaxLifelineQuestions |-> GeneratedQuestion(i)]]

InitLifelines == AnsweringFrom(LifelineQuiz)

NextLifelines ==
    \/ GenerateFinished
    \/ GenerateStatusThrew
    \/ SelectStep
    \/ SubmitStep
    \/ FiftyFiftyStep
    \/ handleUseHint
    \/ handleNextQuestion

\* the answer loop of one generated quiz with its lifelines, from the
\* arrival of the quiz on
SpecLifelines == InitLifelines /\ [][NextLifelines]_vars

\* the quiz the restart runs below are played on: one question of four options
RestartQuiz == [title |-> 0, questions |-> <<GeneratedQuestion(1)>>]

RestartReceivedStep == GenerateQuizReceived(RestartQuiz)

NextRestart ==
    \/ TopicStep
    \/ NumQuestionsStep
    \/ handleGenerateQuiz
    \/ RestartReceivedStep
    \/ GenerateFinished
    \/ SelectStep
    \/ SubmitStep
    \/ FiftyFiftyStep
    \/ handleUseHint
    \/ handleNextQuestion
    \/ handleRetryMissedQuestions
    \/ handleRestartQuiz
    \/ SaveResolved
    \/ SaveRejected

NextIp == IpStatusStep

\* requests of the IP-keyed status route
SpecIp == Init /\ [][NextIp]_vars

\* rounds of configuring, playing a one-question quiz with lifelines and a
\* remix, and restarting
SpecRestart == Init /\ [][NextRestart]_vars

(***************************************************************************)
(* Properties of the rate limiter (sequential calls, SpecRL)               *)
(***************************************************************************)
\* the counts a call works on once the lazy roll-over is applied to what is
\* stored, written out from the stored markers
EffectiveDaily(data, today) ==
    IF data.exists /\ data.lastDailyReset = today THEN data.dailyCount ELSE 0

EffectiveMonthly(data, thisMonth) ==
    IF data.exists /\ data.lastMonthlyReset = thisMonth THEN data.monthlyCount ELSE 0

\* the date a stored day marker stands for
MarkerDate(marker) == [month |-> marker[1], day |-> marker[2]]

\* C1: from an identity without a record, the first DAILY_LIMIT sequential
\* checkRateLimit calls of one UTC day are allowed and the next one of that
\* day is rejected; the first call that reads a later day is allowed and
\* leaves dailyCount = 1 in the store.
C1_DailyQuotaAndRollover ==
    \A u \in Users :
        /\ (rlLast[u].op = "check" /\ rlTrace[u].phase = "first")
              => (rlLast[u].allowed <=> rlTrace[u].calls <= DAILY_LIMIT)
        /\ (rlLast[u].op = "check" /\ rlTrace[u].phase = "after")
              => (rlLast[u].allowed /\ store[u].dailyCount = 1)

C1_Witness ==
    \E u \in Users :
        /\ rlLast[u].op = "check"
        /\ rlTrace[u].phase = "after"
        /\ rlTrace[u].calls = DAILY_LIMIT + 1
        /\ rlLast[u].allowed
        /\ store[u].dailyCount = 1

\* C7: an allowed checkRateLimit call stores the rolled-over daily and
\* monthly counts plus exactly one (the stored counts plus one when no period
\* changed) and returns limit - new count for each; the first call of an
\* identity creates the record with both counts 1 and the day and month it
\* read, and returns DAILY_LIMIT - 1 and MONTHLY_LIMIT - 1.
C7_AllowedConsumesOne ==
    [][\A u \in Users, crossed \in BOOLEAN :
          (checkRateLimit(u, crossed) /\ rlLast'[u].allowed) =>
              LET today == Today(now)
                  thisMonth == ThisMonth(now')
              IN /\ store'[u].exists
                 /\ store'[u].dailyCount = EffectiveDaily(store[u], today) + 1
                 /\ store'[u].monthlyCount = EffectiveMonthly(store[u], thisMonth) + 1
                 /\ store'[u].lastDailyReset = today
                 /\ store'[u].lastMonthlyReset = thisMonth
                 /\ rlLast'[u].hasRemaining
                 /\ rlLast'[u].daily = DAILY_LIMIT - store'[u].dailyCount
                 /\ rlLast'[u].monthly = MONTHLY_LIMIT - store'[u].monthlyCount
                 /\ ~store[u].exists =>
                        /\ store'[u].dailyCount = 1
                        /\ store'[u].monthlyCount = 1
                        /\ rlLast'[u].daily = DAILY_LIMIT - 1]_vars

\* 3 of 20 used: the next call is allowed and returns 16 remaining
C7_Witness ==
    \E u \in Users :
        /\ rlLast[u].op = "check"
        /\ rlLast[u].allowed
        /\ store[u].dailyCount = 4
        /\ rlLast[u].daily = 16

\* C8: a rejected checkRateLimit call increases neither stored counter.
C8_RejectedDoesNotCount ==
    [][\A u \in Users, crossed \in BOOLEAN :
          (checkRateLimit(u, crossed) /\ ~rlLast'[u].allowed) =>
              /\ store'[u].dailyCount <= store[u].dailyCount
              /\ store'[u].monthlyCount <= store[u].monthlyCount]_vars

C8_Witness ==
    \E u \in Users :
        /\ rlLast[u].op = "check"
        /\ ~rlLast[u].allowed
        /\ rlLast[u].reason = "daily"
        /\ store[u].dailyCount = DAILY_LIMIT

\* a rejected call that read a day or month other than the stored marker
StaleRejection(u, crossed) ==
    /\ checkRateLimit(u, crossed)
    /\ ~rlLast'[u].allowed
    /\ \/ store[u].lastDailyReset # Today(now)
       \/ store[u].lastMonthlyReset # ThisMonth(now')

\* C9 as stated: after a rejected call that found a stale day (or month)
\* marker, the stored record carries the current marker and a count of 0 for
\* the rolled-over period.
C9_RolloverPersistedOnReject ==
    [][\A u \in Users, crossed \in BOOLEAN :
          StaleRejection(u, crossed) =>
              /\ store'[u].lastDailyReset = Today(now)
              /\ store'[u].lastMonthlyReset = ThisMonth(now')
              /\ store[u].lastDailyReset # Today(now) => store'[u].dailyCount = 0
              /\ store[u].lastMonthlyReset # ThisMonth(now') => store'[u].monthlyCount = 0]_vars

\* C9 as amended: a rejected call that found a stale day (or month) marker
\* writes nothing: the stored record keeps the stale marker and the old count.
C9_RejectLeavesStaleRecord ==
    [][\A u \in Users, crossed \in BOOLEAN :
          StaleRejection(u, crossed) => store'[u] = store[u]]_vars

\* rejected by the monthly limit on a day later than the stored day marker
C9_Witness ==
    \E u \in Users :
        /\ rlLast[u].op = "check"
        /\ ~rlLast[u].allowed
        /\ rlLast[u].reason = "monthly"
        /\ store[u].lastDailyReset # Today(now)
        /\ NextDate(MarkerDate(store[u].lastDailyReset)) # now
        /\ store[u].dailyCount > 0

\* C10: getRateLimitStatus leaves the store unchanged and returns, for each
\* period, the limit minus the stored count, or the full limit when the
\* record is absent or its marker is not the period the call read.
C10_StatusReadOnly ==
    [][\A u \in Users, crossed \in BOOLEAN :
          getRateLimitStatus(u, crossed) =>
              /\ store' = store
              /\ rlLast'[u].daily = DAILY_LIMIT - EffectiveDaily(store[u], Today(now))
              /\ rlLast'[u].monthly
                    = MONTHLY_LIMIT - EffectiveMonthly(store[u], ThisMonth(now'))]_vars

\* a status call on a record whose day marker is stale reports the full limit
C10_Witness ==
    \E u \in Users :
        /\ rlLast[u].op = "status"
        /\ store[u].exists
        /\ store[u].dailyCount > 0
        /\ store[u].lastDailyReset # Today(now)
        /\ rlLast[u].daily = DAILY_LIMIT

(***************************************************************************)
(* Properties of the rate limiter under concurrent calls (SpecConcurrent)  *)
(***************************************************************************)
\* the call c returns in this step
Finishes(c) == inflight[c].pc = "read" /\ inflight'[c].pc = "idle"

\* C11: the read-then-write of checkRateLimit is not atomic.  A call decides
\* on the document it read and an allowed call stores that document's counts
\* plus one, whatever the store holds by then; so the stored daily count
\* stays within DAILY_LIMIT while the allowed calls of the day can exceed it
\* (a late write of a stale count even lowers the stored count again).
C11_ReadThenWriteNotAtomic ==
    /\ [][\A c \in Calls : Finishes(c) =>
            LET u == inflight[c].userId
                out == CheckOutcome(inflight[c].data, Today(now), ThisMonth(now))
            IN /\ rlLast'[u] = out.result
               /\ out.result.allowed => store'[u] = out.doc]_vars
    /\ [](\A u \in Users : store[u].dailyCount <= DAILY_LIMIT)

\* overshoot: more calls were allowed in the day than DAILY_LIMIT, and the
\* stored count is lower than the number of allowed calls
C11_Witness ==
    /\ allowedCalls > DAILY_LIMIT
    /\ \E u \in Users : store[u].dailyCount < allowedCalls

(***************************************************************************)
(* Properties of the quiz endpoint (SpecApi)                               *)
(***************************************************************************)
Served == apiLast.status # 0

\* the limiter answered the request and denied it
Denied == apiLast.limiter.op = "check" /\ ~apiLast.limiter.allowed

\* C12: a request the rate limiter denies is answered 429 with
\* rateLimitExceeded = true and the limiter's reason, and without a call of
\* the upstream generator; a call of the generator is always preceded by a
\* rate-limit check that allowed the request.
C12_DenialShortCircuits ==
    Served =>
        /\ Denied => /\ apiLast.status = 429
                     /\ apiLast.rateLimitExceeded
                     /\ apiLast.error = apiLast.limiter.reason
                     /\ ~apiLast.upstreamCalled
        /\ apiLast.upstreamCalled => /\ apiLast.limiterCalled
                                     /\ apiLast.limiter.op = "check"
                                     /\ apiLast.limiter.allowed

\* a request that would have gone upstream is denied by the daily limit
C12_Witness ==
    /\ Served /\ Denied
    /\ apiLast.limiter.reason = "daily"
    /\ apiLast.req = BaseRequest
    /\ apiLast.status = 429

\* C13: a POST request with an identity and an invalid mode or a missing
\* content is rejected with 400 before the rate limiter is consulted, and
\* leaves the identity's counters unchanged.
C13_ValidationBeforeRateLimit ==
    [][\A req \in Requests, env \in Envs :
        (/\ handler(req, env)
         /\ req.method = "POST" /\ req.userId # NoUser
         /\ InvalidMode(req.mode) \/ MissingContent(ContentOf(req)))
        => /\ apiLast'.status = 400
           /\ ~apiLast'.limiterCalled
           /\ store' = store]_vars

\* C14: a request that reaches the content check with a content that is
\* empty after trimming is answered 400 and makes no upstream call.
C14_BlankContentRejected ==
    (/\ Served
     /\ apiLast.limiter.op = "check" /\ apiLast.limiter.allowed
     /\ ~InvalidMode(apiLast.req.mode)
     /\ Trim(ContentOf(apiLast.req)) = "")
    => (apiLast.status = 400 /\ ~apiLast.upstreamCalled)

\* C15: for every integer count the effective count of a request that gets
\* as far as the count is min(max(count, 3), 20).
C15_CountClamped ==
    (Served /\ apiLast.safeCount # 0 /\ apiLast.req.count.kind = "int")
    => apiLast.safeCount = Min(Max(apiLast.req.count.value, 3), 20)

C18_AnswerIndexValid ==
    (Served /\ apiLast.status = 200) =>
        \A i \in DOMAIN apiLast.questions :
            /\ 0 <= apiLast.questions[i].answerIndex
            /\ apiLast.questions[i].answerIndex < apiLast.questions[i].options

\* C19: a POST request that is not answered 200 is answered 400, 401, 429 or
\* 500 by failure kind: 401 for a missing identity (no limiter call, no
\* upstream call), 429 for a quota denial, 400 for a validation failure, 500
\* for an upstream or parse failure.
C19_ErrorStatusByKind ==
    (Served /\ apiLast.req.method = "POST" /\ apiLast.status # 200) =>
        /\ apiLast.status \in {400, 401, 429, 500}
        /\ apiLast.status = 401 <=> apiLast.req.userId = NoUser
        /\ apiLast.status = 401 => (~apiLast.limiterCalled /\ ~apiLast.upstreamCalled)
        /\ apiLast.status = 429 <=> Denied
        /\ apiLast.status = 400 <=> apiLast.error \in {"mode", "content"}
        /\ apiLast.upstreamCalled => apiLast.status = 500

(***************************************************************************)
(* Properties of the generation form (SpecForm)                            *)
(***************************************************************************)
\* the input holds a whole number between 3 and 20
CountInRange(str) ==
    LET n == ParseInt(str) IN n # Null /\ 3 <= n /\ n <= 20

C20_LifelinesOnce ==
    /\ lifelineUses.fiftyFifty <= 1
    /\ lifelineUses.hint <= 1
    /\ Cardinality(eliminatedOptions) \in {0, 2}

(***************************************************************************)
(* Properties of the quiz session (SpecSession)                            *)
(***************************************************************************)
IsCorrect(rec) == rec.selected = rec.correct

\* the number of answer records whose selected option is the correct one
CorrectCount(recs) == Cardinality({i \in DOMAIN recs : IsCorrect(recs[i])})

\* the length of the run of correct records that ends at position i
RECURSIVE RunEndingAt(_, _)
RunEndingAt(recs, i) ==
    IF i = 0 \/ ~IsCorrect(recs[i]) THEN 0 ELSE 1 + RunEndingAt(recs, i - 1)

TrailingRun(recs) == RunEndingAt(recs, Len(recs))

LongestRun(recs) ==
    IF recs = <<>> THEN 0
    ELSE CHOOSE n \in 0..Len(recs) :
            /\ \E i \in DOMAIN recs : RunEndingAt(recs, i) = n
            /\ \A i \in DOMAIN recs : RunEndingAt(recs, i) <= n

\* an addDoc call is issued in this step
AddDocIssued == pendingSaves' = pendingSaves + 1

C3_SaveOnce == sessionWrites <= 1

\* C4: a session that is Completed with an authenticated user and
\* practiceMode = false has had an addDoc issued for it.
C4_CompletedIsSaved ==
    (CompleteView /\ user # NoUser /\ ~practiceMode) => sessionWrites >= 1

\* C5: at Completed, with N questions of which K got a correct submitted
\* answer, score = K, and the percent shown and the percent of the document
\* saved for the session are round(K / N * 100), half rounded up.
C5_ScoreAndPercent ==
    CompleteView =>
        LET N == Len(quiz.questions)
            K == Cardinality(correctQs)
            percent == (200 * K + N) \div (2 * N)
        IN /\ score = K
           /\ Percentage(score, N) = percent
           /\ sessionWrites > 0 => (lastDoc.score = K /\ lastDoc.percent = percent)

\* C6: currentStreak is the length of the trailing run of correct answers
\* and bestStreak the length of the longest run of correct answers among the
\* session's answer records.
C6_Streaks ==
    /\ currentStreak = TrailingRun(answers)
    /\ bestStreak = LongestRun(answers)

\* the answers correct, correct, wrong, correct, correct, correct: both
\* streaks are 3
C6_Witness ==
    /\ Len(answers) = 6
    /\ \A i \in 1..6 : IsCorrect(answers[i]) <=> i # 3
    /\ bestStreak = 3
    /\ currentStreak = 3

\* C21: a 50/50 step is taken only while answering a question of at least four
\* options; it eliminates exactly two distinct option indices of that question,
\* never the answerIndex, and clears the selection exactly when the selected
\* option is one of the two eliminated (otherwise the selection is kept);
\* while the explanation is shown the lifeline changes nothing.
FiftyFiftyTaken == ~fiftyFiftyUsed /\ fiftyFiftyUsed'

RECURSIVE NotAnsweredCorrectly(_, _, _)
NotAnsweredCorrectly(questions, correct, i) ==
    IF i > Len(questions) THEN <<>>
    ELSE (IF i \in correct THEN <<>> ELSE <<questions[i]>>)
             \o NotAnsweredCorrectly(questions, correct, i + 1)

\* a retry of the missed questions: the completed quiz is replaced by a remix
RetryTaken == quizComplete /\ quiz # NoQuiz /\ quiz' # NoQuiz /\ quiz'.title = quiz.title + 1

\* C22: from the completed view with M >= 1 missed questions (answered wrongly
\* or not answered), retry-missed produces a quiz of exactly those M questions
\* in their original order, M being the missed count the results view shows,
\* in practice mode, with the suffixed title, at index 0, answering, with
\* score, streaks, answers, responseTimes and lifeline flags reset.
C22_RetryMissedExactly ==
    [][RetryTaken =>
        /\ quiz'.questions = NotAnsweredCorrectly(quiz.questions, correctQs, 1)
        /\ Len(quiz'.questions) = MissedCount
        /\ Len(quiz'.questions) >= 1
        /\ practiceMode'
        /\ currentQuestion' = 0 /\ ~quizComplete'
        /\ selectedAnswer' = Null /\ ~showExplanation'
        /\ score' = 0 /\ currentStreak' = 0 /\ bestStreak' = 0
        /\ answers' = <<>> /\ responseTimes' = <<>>
        /\ ~fiftyFiftyUsed' /\ ~hintUsed']_vars

\* C23: when a generation call finishes successfully the session is in
\* progress at the first question, answering, with score 0, both streaks 0
\* and empty answers and responseTimes, whatever the user did between the
\* asynchronous steps of handleGenerateQuiz.
C23_GenerationEndsAtFreshSession ==
    [][GenerateFinished =>
        /\ quiz' # NoQuiz /\ ~quizComplete'
        /\ currentQuestion' = 0
        /\ selectedAnswer' = Null /\ ~showExplanation'
        /\ score' = 0 /\ currentStreak' = 0 /\ bestStreak' = 0
        /\ answers' = <<>> /\ responseTimes' = <<>>]_vars

\* a call of handleGenerateQuiz that ends by setting the error
GenerationEndsInError ==
    \/ GenerateFailed
    \/ GenerateStatusThrew
    \/ handleGenerateQuiz /\ error' # Null

\* C24: whenever handleGenerateQuiz ends by surfacing an error the page stays
\* on the form: quiz is still null and the error is the one the form shows.
C24_FailedGenerationStaysOnForm ==
    [][GenerationEndsInError =>
        /\ error' # Null
        /\ quiz' = NoQuiz
        /\ ~quizComplete']_vars

\* C25: every answer record in the answers list has timeSpent >= 1, and
\* responseTimes holds the same values in the same order.
C25_TimeSpentAtLeastOne ==
    /\ \A i \in DOMAIN answers : answers[i].timeSpent >= 1
    /\ Len(responseTimes) = Len(answers)
    /\ \A i \in DOMAIN answers : responseTimes[i] = answers[i].timeSpent

\* a step that scores: it adds a record or a response time, or raises the
\* score or a streak
Scores ==
    \/ Len(answers') > Len(answers)
    \/ Len(responseTimes') > Len(responseTimes)
    \/ score' > score
    \/ currentStreak' > currentStreak
    \/ bestStreak' > bestStreak

\* the number of records a quiz at this point of play has when every question
\* passed, and the open one once revealed, received exactly one
RecordsDue ==
    IF quizComplete THEN Len(quiz.questions)
    ELSE currentQuestion + (IF showExplanation THEN 1 ELSE 0)

\* C26: submit does nothing while the explanation is shown or while nothing is
\* selected: score, streaks, answers and responseTimes grow only by a step
\* taken while answering with an option selected, which adds one record and
\* reveals the explanation; so every question receives exactly one record
\* per session.
C26_SubmitOncePerQuestion ==
    /\ [][Scores =>
            /\ ~showExplanation /\ selectedAnswer # Null
            /\ Len(answers') = Len(answers) + 1
            /\ showExplanation']_vars
    /\ [](quiz # NoQuiz => Len(answers) = RecordsDue)

\* a step that moves on from the open question of the quiz being played
MovesOn ==
    /\ quiz # NoQuiz /\ quiz' = quiz
    /\ currentQuestion' # currentQuestion \/ (~quizComplete /\ quizComplete')

\* C27: the quiz moves on only from a revealed question; when more questions
\* remain the index advances by one and the per-question state is reset
\* (selection, eliminated options and hint cleared, timer restarted), on the
\* last question the session becomes completed; score, streaks, answers,
\* response times and lifeline flags are left unchanged either way.
C27_NextOnlyFromRevealed ==
    [][MovesOn =>
        /\ showExplanation /\ ~quizComplete
        /\ IF currentQuestion < Len(quiz.questions) - 1
           THEN /\ currentQuestion' = currentQuestion + 1
                /\ ~quizComplete'
                /\ selectedAnswer' = Null /\ ~showExplanation'
                /\ eliminatedOptions' = {} /\ hintText' = Null
                /\ questionStartedAt' # 0
           ELSE /\ quizComplete'
                /\ currentQuestion' = currentQuestion
        /\ UNCHANGED <<score, currentStreak, bestStreak, answers, responseTimes,
                       fiftyFiftyUsed, hintUsed>>]_vars

\* the second question is open after a first one on which 50/50 was used
C27_Witness ==
    /\ currentQuestion = 1 /\ ~showExplanation /\ ~quizComplete
    /\ Len(answers) = 1 /\ score = 1
    /\ fiftyFiftyUsed /\ eliminatedOptions = {} /\ selectedAnswer = Null
    /\ genPc = "idle"

\* a restart: the completed quiz is dropped
RestartTaken == quizComplete /\ quiz # NoQuiz /\ quiz' = NoQuiz

\* C28: restart from the completed view returns to the form with the
\* generation inputs and the session state at their initial defaults: quiz
\* null, index 0, no selection, score and streaks 0, answers and
\* responseTimes empty, lifelines unused, practice mode off, empty topic and
\* count '10'.
C28_RestartRestoresDefaults ==
    [][RestartTaken =>
        /\ ~quizComplete'
        /\ currentQuestion' = 0
        /\ selectedAnswer' = Null /\ ~showExplanation'
        /\ score' = 0 /\ currentStreak' = 0 /\ bestStreak' = 0
        /\ answers' = <<>> /\ responseTimes' = <<>>
        /\ ~fiftyFiftyUsed' /\ ~hintUsed'
        /\ eliminatedOptions' = {} /\ hintText' = Null
        /\ ~practiceMode'
        /\ questionStartedAt' = 0
        /\ topic' = "" /\ numQuestions' = "10"]_vars

\* the form after a restart of a quiz whose history write succeeded
C28_Witness ==
    /\ quiz = NoQuiz /\ saveStatus = "saved"
    /\ topic = "" /\ numQuestions = "10"
    /\ score = 0 /\ answers = <<>> /\ ~practiceMode /\ ~fiftyFiftyUsed

\* the moves of saveStatus a session allows
SaveStatusMoves ==
    {<<"idle", "saving">>, <<"saving", "saved">>, <<"saving", "error">>}

\* C29: a failed history write sets saveStatus to 'error' and leaves
\* quizComplete, quiz, score, answers and the streaks unchanged; and while one
\* quiz is on the page saveStatus only moves idle -> saving -> saved or error.
C29_SaveFailureNonFatal ==
    /\ [][SaveRejected =>
            /\ saveStatus' = "error"
            /\ UNCHANGED <<quizComplete, quiz, score, answers, currentStreak,
                           bestStreak>>]_vars
    /\ [][(quiz # NoQuiz /\ quiz' = quiz /\ saveStatus' # saveStatus) =>
            <<saveStatus, saveStatus'>> \in SaveStatusMoves]_vars

\* a call of handleGenerateQuiz that sends the request to /api/quiz
GenerationStarts == handleGenerateQuiz /\ genPc' = "quiz"

\* a call of handleGenerateQuiz that returns or throws after its request
GenerationEnds == genPc # "idle" /\ genPc' = "idle"

\* C30: at most one generation call is running: a call starts only while
\* none is running and isGenerating is false, isGenerating is true exactly
\* while a call is between its request and its end, the Generate button is
\* disabled all that time, and isGenerating is false again whenever the call
\* ends, by success or by failure.
C30_OneGenerationAtATime ==
    /\ [][GenerationStarts => genPc = "idle" /\ ~isGenerating /\ isGenerating']_vars
    /\ [][GenerationEnds => ~isGenerating']_vars
    /\ [](isGenerating <=> genPc # "idle")
    /\ [](isGenerating => GenerateDisabled)

\* the form is back on the page, with a topic typed, while the call that
\* produced the restarted quiz is still running
C30_Witness ==
    /\ FormView /\ Trim(topic) # "" /\ ~InvalidCount(numQuestions)
    /\ isGenerating /\ genPc = "status"

\* no call of checkRateLimit is between its read and its end
NoCallRunning == \A c \in Calls : inflight[c].pc = "idle"

\* C31: after any interleaving of checkRateLimit calls of one identity within
\* one day and month, the stored dailyCount equals the number of calls that
\* returned allowed: no increment is lost.
C31_NoIncrementLost ==
    NoCallRunning =>
        \A u \in Users : allowedCalls <= DAILY_LIMIT => store[u].dailyCount = allowedCalls

\* C32: the selected option is never an eliminated one: in every state with
\* a quiz on the page selectedAnswer is null or an index of the open question
\* that is not eliminated; the selection changes to an option only while
\* answering; and every record appended holds an option that was a valid,
\* non-eliminated index when it was submitted.
C32_SelectionNeverEliminated ==
    /\ [](quiz # NoQuiz /\ selectedAnswer # Null =>
            /\ HasCurrentQ
            /\ selectedAnswer \in 0..(CurrentQ.options - 1)
            /\ selectedAnswer \notin eliminatedOptions)
    /\ [][(selectedAnswer' # selectedAnswer /\ selectedAnswer' # Null) =>
            ~showExplanation /\ selectedAnswer' \notin eliminatedOptions]_vars
    /\ [][Len(answers') > Len(answers) =>
            LET rec == answers'[Len(answers')]
            IN /\ rec.selected \in 0..(CurrentQ.options - 1)
               /\ rec.selected \notin eliminatedOptions]_vars

\* a wrong option that 50/50 left in place was selected and submitted
C32_Witness ==
    /\ showExplanation /\ fiftyFiftyUsed
    /\ Cardinality(eliminatedOptions) = 2
    /\ Len(answers) = 1 /\ currentQuestion = 0
    /\ answers[1].selected # answers[1].correct
    /\ answers[1].selected \notin eliminatedOptions

\* some span of the text is a JSON object
HasJsonObject(text) ==
    \E i, j \in DOMAIN text : SubSeq(text, i, j) \in {JsonQuiz, <<"{", "}">>}

\* the payload of the reply carries a non-empty sequence of questions
HasQuestionsSequence(reply) ==
    /\ \E i, j \in DOMAIN reply.text : SubSeq(reply.text, i, j) = JsonQuiz
    /\ Len(reply.questions) > 0
    /\ \A i \in DOMAIN reply.questions : reply.questions[i] # Character

\* C33: malformed output of the generator never yields a 200: when no JSON
\* object can be extracted from the message text the endpoint answers 500
\* with the parse error, when the parsed payload lacks a non-empty questions
\* sequence it answers 500 with the invalid-format error.
C33_MalformedOutputNever200 ==
    (Served /\ apiLast.upstreamCalled /\ apiLast.reply.kind = "text") =>
        /\ ~HasJsonObject(apiLast.reply.text) =>
               (apiLast.status = 500 /\ apiLast.error = "parse")
        /\ (HasJsonObject(apiLast.reply.text) /\ ~HasQuestionsSequence(apiLast.reply)) =>
               (apiLast.status = 500 /\ apiLast.error \in {"parse", "format"})
        /\ apiLast.status = 200 => HasQuestionsSequence(apiLast.reply)

(***************************************************************************)
(* Properties of the caller's address (SpecIp)                             *)
(***************************************************************************)
\* the candidate each source offers: the normalized first entry of
\* X-Forwarded-For, the normalized X-Real-IP, the normalized peer address;
\* empty when the source is absent
Candidates(req) ==
    << IF req.forwardedFor.values = <<>> THEN <<>>
       ELSE normalizeIp(BeforeFirst(req.forwardedFor.values[1], ",")),
       IF req.realIp.values = <<>> THEN <<>>
       ELSE normalizeIp(req.realIp.values[1]),
       IF ~req.remoteAddress.defined THEN <<>>
       ELSE normalizeIp(req.remoteAddress.text) >>

IpServed == ipLast.status # 0 /\ ipLast.req.method = "GET"

\* C34: getClientIp resolves the caller in the order X-Forwarded-For (first
\* entry), X-Real-IP, peer address and returns the first candidate that
\* normalizes to a non-empty value; it returns null only when none does, and
\* then the status route answers 400 and serves no status.
C34_ClientIpOrder ==
    IpServed =>
        LET c == Candidates(ipLast.req)
            resolved == {k \in 1..3 : c[k] # <<>>}
        IN /\ resolved = {} <=> ipLast.status = 400
           /\ ipLast.status = 400 => (ipLast.clientIp = NoIp /\ ipLast.limiter = NoResult)
           /\ resolved # {} =>
                 /\ ipLast.status \in {200, 500}
                 /\ \E k \in resolved :
                        /\ ipLast.clientIp = c[k]
                        /\ \A j \in resolved : k <= j
           /\ ipLast.status = 200 <=> ipLast.limiter.op = "status"

\* X-Forwarded-For says "unknown", so the caller is taken from X-Real-IP,
\* whose port is cut off, although the peer address is present too
C34_Witness ==
    /\ ipLast.status = 200
    /\ ipLast.req.forwardedFor = StringHeader(<<"U">>)
    /\ ipLast.req.realIp = StringHeader(<<"2", ".", "2", ":", "2">>)
    /\ ipLast.req.remoteAddress.defined
    /\ ipLast.clientIp = <<"2", ".", "2">>

(***************************************************************************)
(* Further properties of the quiz session (SpecSession)                    *)
(***************************************************************************)
\* C35: in every state of the session score is the number of records in
\* answers whose selected option is the correct one, and so
\* 0 <= score <= Len(answers) <= number of questions of the current quiz.
C35_ScoreCountsCorrectRecords ==
    /\ score = CorrectCount(answers)
    /\ 0 <= score /\ score <= Len(answers)
    /\ Len(answers) <= Len(quiz.questions)

\* C36: while a quiz is in progress currentQuestion is an index into its
\* questions and answers holds one record for every question before the open
\* one, plus one for the open question once it is revealed; at completion
\* answers holds one record per question; so the record at position i is the
\* one of question i.
C36_AnswersAlignedWithQuestions ==
    /\ (quiz # NoQuiz /\ ~quizComplete) =>
          /\ 0 <= currentQuestion /\ currentQuestion < Len(quiz.questions)
          /\ Len(answers) = currentQuestion + (IF showExplanation THEN 1 ELSE 0)
    /\ (quiz # NoQuiz /\ quizComplete) => Len(answers) = Len(quiz.questions)
    /\ quiz # NoQuiz =>
          \A i \in DOMAIN answers :
              /\ i \in DOMAIN quiz.questions
              /\ answers[i].correct = quiz.questions[i].answerIndex

\* C37: in every state of the store, under concurrent checkRateLimit calls
\* too, the stored dailyCount is within 0..DAILY_LIMIT and the stored
\* monthlyCount within 0..MONTHLY_LIMIT, and the remaining quota returned by
\* checkRateLimit and getRateLimitStatus is never negative.
C37_CountsWithinLimits ==
    \A u \in Users :
        /\ store[u].dailyCount \in 0..DAILY_LIMIT
        /\ store[u].monthlyCount \in 0..MONTHLY_LIMIT
        /\ rlLast[u].hasRemaining => rlLast[u].daily >= 0 /\ rlLast[u].monthly >= 0

\* two calls read the record one below both limits; both were allowed, the
\* store holds the limits and the last call returned no remaining quota
C37_Witness ==
    \E u \in Users :
        /\ store[u].dailyCount = DAILY_LIMIT
        /\ store[u].monthlyCount = MONTHLY_LIMIT
        /\ allowedCalls = 2
        /\ rlLast[u].op = "check"
        /\ rlLast[u].allowed
        /\ rlLast[u].daily = 0
        /\ rlLast[u].monthly = 0

\* C38: under sequential calls within one day and month, getRateLimitStatus
\* reports daily > 0 and monthly > 0 exactly when the next checkRateLimit
\* call is allowed, and right after an allowed checkRateLimit call that
\* returned the remaining quota (d, m), getRateLimitStatus returns exactly
\* daily = d and monthly = m.
C38_StatusAgreesWithCheck ==
    /\ [][\A u \in Users :
             getRateLimitStatus(u, FALSE) =>
                 LET nextCheck == CheckOutcome(store'[u], Today(now'), ThisMonth(now'))
                 IN (rlLast'[u].daily > 0 /\ rlLast'[u].monthly > 0)
                        <=> nextCheck.result.allowed]_vars
    /\ [][\A u \in Users :
             (checkRateLimit(u, FALSE) /\ rlLast'[u].allowed) =>
                 LET status == StatusOutcome(store'[u], Today(now'), ThisMonth(now'))
                 IN /\ status.daily = rlLast'[u].daily
                    /\ status.monthly = rlLast'[u].monthly]_vars

\* the month is used up on a day that is not: getRateLimitStatus reports
\* daily > 0 and monthly = 0, and the next call is rejected
C38_Witness ==
    \E u \in Users :
        /\ rlLast[u].op = "status"
        /\ rlLast[u].daily > 0
        /\ rlLast[u].monthly = 0
        /\ store[u].lastDailyReset = Today(now)
        /\ ~CheckOutcome(store[u], Today(now), ThisMonth(now)).result.allowed

\* a request that passed the rate-limit check and was not answered 200
\* leaves both counters of its identity one above the counts of the period
FailedRequestStillCounts ==
    [][(/\ apiLast'.limiter.op = "check"
        /\ apiLast'.limiter.allowed
        /\ apiLast'.status # 200
        /\ \E env \in Envs : handler(apiLast'.req, env)) =>
           LET u == apiLast'.req.userId
           IN /\ store'[u].dailyCount = EffectiveDaily(store[u], Today(now)) + 1
              /\ store'[u].monthlyCount
                    = EffectiveMonthly(store[u], ThisMonth(now)) + 1]_vars

\* no step lowers a stored count whose period marker it leaves as it was
CountersNeverDecrease ==
    [][\A u \in Users :
          /\ (store[u].exists /\ store'[u].lastDailyReset = store[u].lastDailyReset)
                 => store'[u].dailyCount >= store[u].dailyCount
          /\ (store[u].exists /\ store'[u].lastMonthlyReset = store[u].lastMonthlyReset)
                 => store'[u].monthlyCount >= store[u].monthlyCount]_vars

\* C39: quota is never refunded: a request that passes the rate-limit check
\* and then fails (upstream answer not 2xx, unparseable output, empty
\* questions, missing API key) leaves the daily and monthly counters of its
\* identity incremented by 1, and no step decreases a counter within a
\* period.
C39_QuotaNeverRefunded ==
    /\ FailedRequestStillCounts
    /\ CountersNeverDecrease

\* C40: the quiz endpoint fails closed on limiter errors: when reading or
\* writing the rate-limit record throws, the request is answered 500 and no
\* upstream generation call is made.
C40_FailsClosedOnLimiterError ==
    [][\A env \in Envs :
          (/\ env.limiterThrows
           /\ apiLast'.req.method = "POST" /\ apiLast'.req.userId # NoUser
           /\ handler(apiLast'.req, env))
          => /\ apiLast'.status = 500
             /\ apiLast'.error = "limiter"
             /\ ~apiLast'.upstreamCalled
             /\ apiLast'.questions = <<>>]_vars

\* a request that is valid in every field, from an identity with requests
\* left, answered 500 'Rate limit check failed' without an upstream call
C40_Witness ==
    /\ apiLast.req = BaseRequest
    /\ apiLast.limiterCalled
    /\ apiLast.limiter.op = "none"
    /\ apiLast.status = 500
    /\ apiLast.error = "limiter"
    /\ ~apiLast.upstreamCalled
    /\ store[apiLast.req.userId].exists
    /\ store[apiLast.req.userId].dailyCount < DAILY_LIMIT

====
